---- MODULE Spec2Model ----
(***************************************************************************)
(* A model of Testify's controller: TestRunner.discover / TestRunner.run   *)
(* (testify/test_runner.py), the TestProgram driver                        *)
(* (testify/test_program.py), the console reporter (testify/test_logger.py)*)
(* and the JSON reporter (testify/json_reporter.py).                       *)
(*                                                                         *)
(* Python's None is the empty sequence <<>>, a present value x is <<x>>.   *)
(* A dict is a function whose DOMAIN is its key set.                       *)
(***************************************************************************)
EXTENDS Integers, Sequences, FiniteSets, TLC

\* ------------------------------------------------------------------ bounds
\* API calls (discover, run) made on one process.
MaxCalls == 2
\* Interrupts (KeyboardInterrupt / SystemExit) delivered during one run().
MaxInterrupts == 1

\* ---------------------------------------------------------- Python values
None == <<>>

Some(x) == <<x>>

IsNone(v) == v = <<>>

Val(v) == v[1]

\* dict.get(key): the value, or None
DictGet(d, k) == IF k \in DOMAIN d THEN Some(d[k]) ELSE None

EmptyDict == [k \in {} |-> None]

\* dict[key] = value
DictPut(d, k, v) == [x \in (DOMAIN d) \cup {k} |-> IF x = k THEN v ELSE d[x]]

\* dict.setdefault(key, default): the dict afterwards
DictSetDefault(d, k, v) == IF k \in DOMAIN d THEN d ELSE DictPut(d, k, v)

\* ------------------------------------------------- the discovered classes
\* A test class: its module (__module__) and its name (__name__).
ClassA1 == [mod |-> "m1", name |-> "A"]

ClassB1 == [mod |-> "m1", name |-> "B"]

ClassA2 == [mod |-> "m2", name |-> "A"]

\* test_discovery.discover(path): the classes a path yields, in order;
\* a path that cannot be resolved raises DiscoveryError.
TestPaths == {"tests", "tests/sub", "missing"}

Discovered(path) ==
    CASE path = "tests" -> <<ClassA1, ClassB1, ClassA2>>
      [] path = "tests/sub" -> <<ClassA2, ClassA1>>
      [] OTHER -> <<>>

DiscoveryFails(path) == path = "missing"

\* MetaTestCase._cmp_str(cls): the identity "module.ClassName"
CmpStr(c) == <<c.mod, c.name>>

\* hash(identity): fixed per identity
HashOf(c) ==
    CASE c = ClassA1 -> 4
      [] c = ClassB1 -> 7
      [] OTHER -> 9

\* A bucket count the modulo accepts: None raises TypeError, 0 raises
\* ZeroDivisionError.
BucketComputable(bucket_count) == ~IsNone(bucket_count) /\ Val(bucket_count) > 0

\* test_case_class.bucket(bucket_count)
ClassBucket(c, bucket_count) == HashOf(c) % Val(bucket_count)

\* The test methods a class defines, in definition order.
ClassMethods(c) ==
    CASE c = ClassA1 -> <<"t1", "t2">>
      [] c = ClassB1 -> <<>>
      [] OTHER -> <<"t1">>

\* ------------------------------------------------------- discover's inputs
Buckets == {None, Some(0), Some(1)}

BucketCounts == {None, Some(0), Some(2)}

\* The bucket-override tables: none, and one that moves m1.A to bucket 1 and
\* m1.B to a bucket outside every bucket count used here.
BucketOverrideTables ==
    { EmptyDict,
      [k \in {CmpStr(ClassA1), CmpStr(ClassB1)} |->
          IF k = CmpStr(ClassA1) THEN 1 ELSE 5] }

\* The method-override tables a runner is constructed with: class name ->
\* None (no restriction) or a set of method names.
MethodOverrideTables ==
    { EmptyDict,
      [k \in {"A"} |-> None],
      [k \in {"A", "B"} |-> IF k = "A" THEN Some({"t2"}) ELSE None] }

\* ------------------------------------------------------ TestRunner.discover
\* Lines 70-72: the bucket filter of one class. Evaluated left to right with
\* short circuit: the computed bucket is only asked for a class without an
\* override.
BucketFilterRaises(c, bucket, bucket_count, bucket_overrides) ==
    /\ ~IsNone(bucket)
    /\ IsNone(DictGet(bucket_overrides, CmpStr(c)))
    /\ ~BucketComputable(bucket_count)

\* Lines 70-72 with the computed bucket accepted for an overridden class too.
BucketFilterPasses_HashAlso(c, bucket, bucket_count, bucket_overrides) ==
    LET override_bucket == DictGet(bucket_overrides, CmpStr(c)) IN
    \/ IsNone(bucket)
    \/ (BucketComputable(bucket_count) /\ Some(ClassBucket(c, bucket_count)) = bucket)
    \/ (~IsNone(override_bucket) /\ override_bucket = bucket)

\* Lines 70-72 without the computed-bucket case of line 71.
BucketFilterPasses_OverrideOnly(c, bucket, bucket_count, bucket_overrides) ==
    LET override_bucket == DictGet(bucket_overrides, CmpStr(c)) IN
    \/ IsNone(bucket)
    \/ (~IsNone(override_bucket) /\ override_bucket = bucket)

BucketFilterPasses(c, bucket, bucket_count, bucket_overrides) ==
    LET override_bucket == DictGet(bucket_overrides, CmpStr(c)) IN
    \/ IsNone(bucket)
    \/ (IsNone(override_bucket) /\ BucketComputable(bucket_count)
            /\ Some(ClassBucket(c, bucket_count)) = bucket)
    \/ (~IsNone(override_bucket) /\ override_bucket = bucket)

\* Line 73 without its "not self.module_method_overrides" case.
MethodOverrideFilterPasses_NamedOnly(c, overrides) == c.name \in DOMAIN overrides

\* Line 73: the method-override filter of one class.
MethodOverrideFilterPasses(c, overrides) ==
    DOMAIN overrides = {} \/ c.name \in DOMAIN overrides

\* Lines 68-74: the loop over the discovered classes from position i on;
\* acc is test_case_classes so far. An exception of the bucket computation
\* leaves the loop with the classes appended before it.
RECURSIVE DiscoverLoop(_, _, _, _, _, _, _)
DiscoverLoop(found, i, acc, bucket, bucket_count, bucket_overrides, overrides) ==
    IF i > Len(found) THEN [classes |-> acc, outcome |-> "returned"]
    ELSE IF BucketFilterRaises(found[i], bucket, bucket_count, bucket_overrides)
    THEN [classes |-> acc,
          outcome |-> IF IsNone(bucket_count) THEN "TypeError" ELSE "ZeroDivisionError"]
    ELSE DiscoverLoop(found, i + 1,
            IF /\ BucketFilterPasses(found[i], bucket, bucket_count, bucket_overrides)
               /\ MethodOverrideFilterPasses(found[i], overrides)
            THEN Append(acc, found[i]) ELSE acc,
            bucket, bucket_count, bucket_overrides, overrides)

\* discover(test_path, bucket, bucket_count, bucket_overrides) as a whole.
DiscoverCall(classes, overrides, path, bucket, bucket_count, bucket_overrides) ==
    IF DiscoveryFails(path)
    THEN [classes |-> classes, outcome |-> "DiscoveryError"]
    ELSE DiscoverLoop(Discovered(path), 1, classes, bucket, bucket_count,
                      bucket_overrides, overrides)

\* ------------------------------------------------------------------- state
VARIABLES
    test_case_classes,       \* TestRunner.test_case_classes: the admitted list
    module_method_overrides, \* TestRunner.module_method_overrides
    default_overrides,       \* the {} default of __init__'s parameter: one
                             \* object, shared by every runner built without
                             \* the argument
    uses_default,            \* the runner's table is that default object
    built_overrides,         \* the table the constructor call denoted
    coverage,                \* TestRunner.coverage
    profile,                 \* TestRunner.profile
    test_reporters,          \* TestRunner.test_reporters: reporter names
    calls,                   \* API calls made so far
    discover_frame,          \* the last call, when it was a discover: its
                             \* arguments, the runner state it saw, its outcome
    pc,                      \* where run() stands
    idx,                     \* position of the for loop in test_case_classes
    test_case,               \* the instance of the current iteration
    report,                  \* the list built at line 128
    run_result,              \* what run() returned
    observed,                \* per reporter, the method events delivered to it
                             \* during this run()
    asked,                   \* per reporter, the report() calls of this run()
    coverage_calls,          \* code_coverage calls of this run()
    profiles,                \* profile files written during this run()
    instantiated,            \* loop positions whose class was constructed
    ran,                     \* loop positions whose test_case.run() was invoked
    interrupts,              \* interrupts delivered to this run(), in order:
                             \* where each surfaced, and whether the profiler
                             \* absorbed it
    fault,                   \* the reporter operation that raises, if any
    prog                     \* the TestProgram process: options, stage, exit status

runner_vars == <<test_case_classes, module_method_overrides, default_overrides,
                 uses_default, built_overrides, coverage, profile, test_reporters>>

run_vars == <<pc, idx, test_case, report, run_result, observed, asked,
              coverage_calls, profiles, instantiated, ran, interrupts>>

\* The reporters and the sharded discovery, each exercised by a specification
\* of its own further down; the runner's specifications leave them alone.
VARIABLES console, json, shards, parsing

reporter_vars == <<console, json, shards, parsing>>

vars == <<runner_vars, run_vars, calls, discover_frame, fault, prog, reporter_vars>>

\* ----------------------------------------------------------------- reporters
\* parse_test_runner_command_line_args, lines 101-108: the console reporter,
\* then the JSON reporter when --json-results is given.
ReporterLists == {<<"text">>, <<"text", "json">>}

\* What a reporter's report() hands back: a bool, or nothing.
Verdicts == {"True", "False", "None"}

\* Python truthiness of a verdict
Truthy(v) == v = "True"

NoFault == None

\* A reporter raising from test_start, test_complete or report
Faults == {Some([reporter |-> r, at |-> a]) :
              r \in {"text", "json"}, a \in {"test_start", "test_complete", "report"}}

NoInstance == None

NoProgram == [stage |-> "none"]

\* No console reporter, no JSON reporter, no sharded discovery and no parsing
\* is under way.
NoConsole == [stage |-> "none"]

NoJson == [stage |-> "none"]

NoShards == [stage |-> "none"]

NoParsing == [stage |-> "none"]

ReportersIdle ==
    /\ console = NoConsole
    /\ json = NoJson
    /\ shards = NoShards
    /\ parsing = NoParsing

\* ------------------------------------------------------ TestRunner.__init__
\* Lines 43-61. table is the module_method_overrides argument, None when the
\* argument is left out and the parameter's default object is used.
InitRunner(table, cov, prof, reporters) ==
    /\ test_case_classes = <<>>
    /\ default_overrides = EmptyDict
    /\ uses_default = IsNone(table)
    /\ module_method_overrides = IF IsNone(table) THEN EmptyDict ELSE Val(table)
    /\ built_overrides = IF IsNone(table) THEN EmptyDict ELSE Val(table)
    /\ coverage = cov
    /\ profile = prof
    /\ test_reporters = reporters

RunIdle ==
    /\ pc = "idle"
    /\ idx = 0
    /\ test_case = NoInstance
    /\ report = <<>>
    /\ run_result = None
    /\ observed = [r \in {"text", "json"} |-> <<>>]
    /\ asked = [r \in {"text", "json"} |-> 0]
    /\ coverage_calls = <<>>
    /\ profiles = <<>>
    /\ instantiated = <<>>
    /\ ran = <<>>
    /\ interrupts = <<>>

\* The same, as the next state: the locals of a finished run() are gone when
\* the next call starts.
RunReset(start) ==
    /\ pc' = start
    /\ idx' = 0
    /\ test_case' = NoInstance
    /\ report' = <<>>
    /\ run_result' = None
    /\ observed' = [r \in {"text", "json"} |-> <<>>]
    /\ asked' = [r \in {"text", "json"} |-> 0]
    /\ coverage_calls' = <<>>
    /\ profiles' = <<>>
    /\ instantiated' = <<>>
    /\ ran' = <<>>
    /\ interrupts' = <<>>

RunnerInputs ==
    { [table |-> t, cov |-> c, prof |-> p, reporters |-> rs] :
        t \in {None} \cup {Some(m) : m \in MethodOverrideTables},
        c \in BOOLEAN, p \in BOOLEAN, rs \in ReporterLists }

Init ==
    /\ \E i \in RunnerInputs : InitRunner(i.table, i.cov, i.prof, i.reporters)
    /\ RunIdle
    /\ calls = 0
    /\ discover_frame = None
    /\ fault = NoFault
    /\ prog = NoProgram
    /\ ReportersIdle

\* No call is in progress.
Between == pc \in {"idle", "done", "raised"}

\* A second TestRunner(...) in the same process, built like the first but for
\* its module_method_overrides argument; it replaces the first.
NewRunner ==
    /\ Between
    /\ calls < MaxCalls
    /\ calls' = calls + 1
    /\ \E table \in {None} \cup {Some(m) : m \in MethodOverrideTables} :
        /\ uses_default' = IsNone(table)
        /\ module_method_overrides' =
              IF IsNone(table) THEN default_overrides ELSE Val(table)
        /\ built_overrides' = IF IsNone(table) THEN EmptyDict ELSE Val(table)
    /\ test_case_classes' = <<>>
    /\ discover_frame' = None
    /\ RunReset("idle")
    /\ UNCHANGED <<default_overrides, coverage, profile, test_reporters, fault, reporter_vars, prog>>

\* ------------------------------------------------------ TestRunner.discover
Discover ==
    /\ Between
    /\ calls < MaxCalls
    /\ calls' = calls + 1
    /\ \E path \in TestPaths, bucket \in Buckets, bucket_count \in BucketCounts,
          bucket_overrides \in BucketOverrideTables :
        LET r == DiscoverCall(test_case_classes, module_method_overrides, path,
                              bucket, bucket_count, bucket_overrides) IN
        /\ test_case_classes' = r.classes
        /\ discover_frame' = Some([path |-> path, bucket |-> bucket,
                                   bucket_count |-> bucket_count,
                                   bucket_overrides |-> bucket_overrides,
                                   before |-> test_case_classes,
                                   overrides |-> module_method_overrides,
                                   outcome |-> r.outcome])
    /\ RunReset("idle")
    /\ UNCHANGED <<module_method_overrides, default_overrides, uses_default,
                   built_overrides, coverage, profile, test_reporters, fault, reporter_vars, prog>>

\* ----------------------------------------------------------- TestRunner.run
\* Where run() stands inside its try block (lines 93-121).
LoopPcs == {"for", "construct", "check", "register", "coverage_start", "run",
            "running", "coverage_stop"}

\* KeyboardInterrupt comes from a signal and can surface at any point;
\* SystemExit is raised by code that runs: the class's constructor, its
\* runnable_test_methods() and its test methods.
InterruptKinds == {"KeyboardInterrupt", "SystemExit"}

CanRaise(kind, at) ==
    kind = "KeyboardInterrupt" \/ at \in {"construct", "check", "running"}

\* "module.ClassName" as lines 110 and 114 build it
Identity(c) == <<c.mod, c.name>>

\* TestCase.runnable_test_methods() of an instance built with name_overrides
RunnableTestMethods(c, name_overrides) ==
    IF IsNone(name_overrides) THEN ClassMethods(c)
    ELSE SelectSeq(ClassMethods(c), LAMBDA m : m \in Val(name_overrides))

\* Line 92 and the entry into the try block.
StartRun ==
    /\ Between
    /\ calls < MaxCalls
    /\ calls' = calls + 1
    /\ discover_frame' = None
    /\ RunReset("for")
    /\ UNCHANGED <<runner_vars, fault, reporter_vars, prog>>

\* Line 94 as a loop that takes the class it has just had once more
ForNext_Again ==
    /\ pc = "for"
    /\ IF idx < Len(test_case_classes)
       THEN /\ idx' = IF idx = 0 THEN 1 ELSE idx
            /\ pc' = "construct"
       ELSE /\ idx' = idx
            /\ pc' = "report"
    /\ test_case' = NoInstance
    /\ UNCHANGED <<runner_vars, report, run_result, observed, asked, coverage_calls,
                   profiles, instantiated, ran, interrupts, calls, discover_frame,
                   fault, reporter_vars, prog>>

\* Line 94: the for statement takes the next admitted class, or the loop ends.
ForNext ==
    /\ pc = "for"
    /\ IF idx < Len(test_case_classes)
       THEN /\ idx' = idx + 1
            /\ pc' = "construct"
       ELSE /\ idx' = idx
            /\ pc' = "report"
    /\ test_case' = NoInstance
    /\ UNCHANGED <<runner_vars, report, run_result, observed, asked, coverage_calls,
                   profiles, instantiated, ran, interrupts, calls, discover_frame,
                   fault, reporter_vars, prog>>

\* Line 95: module_method_overrides.setdefault(name, None), the table afterwards.
OverridesAfterLookup(overrides, c) == DictSetDefault(overrides, c.name, None)

\* Lines 95-99: look the class's method restriction up and build the instance.
Construct ==
    /\ pc = "construct"
    /\ LET c == test_case_classes[idx]
           table == OverridesAfterLookup(module_method_overrides, c) IN
        /\ module_method_overrides' = table
        /\ default_overrides' = IF uses_default THEN table ELSE default_overrides
        /\ test_case' = Some([cls |-> c,
                              name_overrides |-> table[c.name],
                              callbacks |-> <<>>,
                              todo |-> RunnableTestMethods(c, table[c.name]),
                              current |-> None])
    /\ instantiated' = Append(instantiated, idx)
    /\ pc' = "check"
    /\ UNCHANGED <<test_case_classes, uses_default, built_overrides, coverage,
                   profile, test_reporters, idx, report, run_result, observed,
                   asked, coverage_calls, profiles, ran, interrupts, calls,
                   discover_frame, fault, reporter_vars, prog>>

\* Lines 101-102 without the continue
SkipsClass_Never(tc) == FALSE

\* Lines 101-102: a class without runnable methods is passed over.
SkipsClass(tc) == tc.todo = <<>>

CheckRunnable ==
    /\ pc = "check"
    /\ pc' = IF SkipsClass(Val(test_case)) THEN "for" ELSE "register"
    /\ UNCHANGED <<runner_vars, idx, test_case, report, run_result, observed, asked,
                   coverage_calls, profiles, instantiated, ran, interrupts, calls,
                   discover_frame, fault, reporter_vars, prog>>

\* Lines 105-106 without the registration of test_start
CallbacksOf_CompleteOnly(reporter) ==
    << [event |-> "test_complete", reporter |-> reporter] >>

\* Lines 105-106: the two register_callback calls for one reporter, appended
\* to the instance's callbacks.
CallbacksOf(reporter) ==
    << [event |-> "test_start", reporter |-> reporter],
       [event |-> "test_complete", reporter |-> reporter] >>

\* Lines 104-106, one pass of the loop over test_reporters.
RegisterCallbacks ==
    /\ pc = "register"
    /\ LET tc == Val(test_case)
           k == (Len(tc.callbacks) \div 2) + 1
           cbs == tc.callbacks \o CallbacksOf(test_reporters[k]) IN
        /\ test_case' = Some([tc EXCEPT !.callbacks = cbs])
        /\ pc' = IF k = Len(test_reporters) THEN "coverage_start" ELSE "register"
    /\ UNCHANGED <<runner_vars, idx, report, run_result, observed, asked,
                   coverage_calls, profiles, instantiated, ran, interrupts, calls,
                   discover_frame, fault, reporter_vars, prog>>

\* Lines 109-110
CoverageStart ==
    /\ pc = "coverage_start"
    /\ coverage_calls' = IF coverage
          THEN Append(coverage_calls, <<"start", Identity(Val(test_case).cls)>>)
          ELSE coverage_calls
    /\ pc' = "run"
    /\ UNCHANGED <<runner_vars, idx, test_case, report, run_result, observed, asked,
                   profiles, instantiated, ran, interrupts, calls, discover_frame,
                   fault, reporter_vars, prog>>

\* Lines 113-117: test_case.run() is entered, under the profiler or directly.
InvokeRun ==
    /\ pc = "run"
    /\ ran' = Append(ran, idx)
    /\ pc' = "running"
    /\ UNCHANGED <<runner_vars, idx, test_case, report, run_result, observed, asked,
                   coverage_calls, profiles, instantiated, interrupts, calls,
                   discover_frame, fault, reporter_vars, prog>>

\* The instance fires an event: its callbacks for that event are called in
\* registration order, each with the item; a callback that raises ends the
\* delivery. The result is what every reporter has observed, and whether the
\* delivery raised.
RECURSIVE FireEvent(_, _, _, _, _)
FireEvent(callbacks, event, item, obs, flt) ==
    IF callbacks = <<>> THEN [observed |-> obs, raised |-> FALSE]
    ELSE LET cb == Head(callbacks) IN
         IF cb.event # event
         THEN FireEvent(Tail(callbacks), event, item, obs, flt)
         ELSE IF flt = Some([reporter |-> cb.reporter, at |-> event])
         THEN [observed |-> obs, raised |-> TRUE]
         ELSE FireEvent(Tail(callbacks), event, item,
                        [obs EXCEPT ![cb.reporter] = Append(@, item)], flt)

\* test_case.run() is about to run its next method: EVENT_ON_RUN_TEST_METHOD
MethodStart ==
    /\ pc = "running"
    /\ LET tc == Val(test_case) IN
        /\ IsNone(tc.current)
        /\ tc.todo # <<>>
        /\ LET m == Head(tc.todo)
               d == FireEvent(tc.callbacks, "test_start",
                              <<"test_start", idx, m>>, observed, fault) IN
            /\ observed' = d.observed
            /\ test_case' = Some([tc EXCEPT !.current = Some(m)])
            /\ pc' = IF d.raised THEN "raised" ELSE "running"
    /\ UNCHANGED <<runner_vars, idx, report, run_result, asked, coverage_calls,
                   profiles, instantiated, ran, interrupts, calls, discover_frame,
                   fault, reporter_vars, prog>>

\* The method has finished with a result: EVENT_ON_COMPLETE_TEST_METHOD
MethodComplete ==
    /\ pc = "running"
    /\ LET tc == Val(test_case) IN
        /\ ~IsNone(tc.current)
        /\ LET d == FireEvent(tc.callbacks, "test_complete",
                              <<"test_complete", idx, Val(tc.current)>>,
                              observed, fault) IN
            /\ observed' = d.observed
            /\ test_case' = Some([tc EXCEPT !.current = None, !.todo = Tail(@)])
            /\ pc' = IF d.raised THEN "raised" ELSE "running"
    /\ UNCHANGED <<runner_vars, idx, report, run_result, asked, coverage_calls,
                   profiles, instantiated, ran, interrupts, calls, discover_frame,
                   fault, reporter_vars, prog>>

\* Line 114: the profile file of a class
ProfileFile(c) == <<c.mod, c.name, "cprofile">>

\* Lines 113-117: test_case.run() returns; cProfile.runctx writes the file.
RunReturns ==
    /\ pc = "running"
    /\ IsNone(Val(test_case).current)
    /\ Val(test_case).todo = <<>>
    /\ profiles' = IF profile
          THEN Append(profiles, ProfileFile(Val(test_case).cls)) ELSE profiles
    /\ pc' = "coverage_stop"
    /\ UNCHANGED <<runner_vars, idx, test_case, report, run_result, observed, asked,
                   coverage_calls, instantiated, ran, interrupts, calls,
                   discover_frame, fault, reporter_vars, prog>>

\* Lines 120-121
CoverageStop ==
    /\ pc = "coverage_stop"
    /\ coverage_calls' = IF coverage
          THEN Append(coverage_calls, <<"stop">>) ELSE coverage_calls
    /\ pc' = "for"
    /\ UNCHANGED <<runner_vars, idx, test_case, report, run_result, observed, asked,
                   profiles, instantiated, ran, interrupts, calls, discover_frame,
                   fault, reporter_vars, prog>>

\* cProfile.runctx (line 115) passes over a SystemExit raised by the statement
\* it runs, and in every case writes the profile file on its way out.
ProfilerAbsorbs(kind, at) == profile /\ at = "running" /\ kind = "SystemExit"

\* Lines 123-126 with the handler inside the loop, after the class's bracket:
\* the class's iteration is completed before the loop is left.
AfterInterrupt_FinishClass(kind, at) == "coverage_stop"

\* Lines 123-126 with the handler inside the loop body: the loop goes on with
\* the next class.
AfterInterrupt_NextClass(kind, at) ==
    IF ProfilerAbsorbs(kind, at) THEN "coverage_stop" ELSE "for"

\* Lines 123-126: where control goes when an exception of this kind leaves
\* the statement at `at`: the except clause ends the loop, and line 128 is next.
AfterInterrupt(kind, at) ==
    IF ProfilerAbsorbs(kind, at) THEN "coverage_stop" ELSE "report"

\* An interrupt surfaces while the try block runs.
Interrupt ==
    /\ pc \in LoopPcs
    /\ Len(interrupts) < MaxInterrupts
    /\ \E kind \in InterruptKinds :
        /\ CanRaise(kind, pc)
        /\ interrupts' = Append(interrupts,
                                [at |-> pc, idx |-> idx,
                                 absorbed |-> ProfilerAbsorbs(kind, pc)])
        /\ profiles' = IF profile /\ pc = "running"
              THEN Append(profiles, ProfileFile(Val(test_case).cls)) ELSE profiles
        /\ pc' = AfterInterrupt(kind, pc)
    /\ UNCHANGED <<runner_vars, idx, test_case, report, run_result, observed, asked,
                   coverage_calls, instantiated, ran, calls, discover_frame,
                   fault, reporter_vars, prog>>

\* Line 129 with any() for all()
AllReports_Any(rep) == \E i \in DOMAIN rep : Truthy(rep[i])

\* Line 129: all(report)
AllReports(rep) == \A i \in DOMAIN rep : Truthy(rep[i])

\* Line 128: the reporters asked before one raises (all of them when none does)
AskedBeforeRaise(reporters, flt) ==
    IF \E i \in DOMAIN reporters : flt = Some([reporter |-> reporters[i], at |-> "report"])
    THEN (CHOOSE i \in DOMAIN reporters :
              flt = Some([reporter |-> reporters[i], at |-> "report"])) - 1
    ELSE Len(reporters)

\* Lines 128-129: every reporter's report() in test_reporters order, then the
\* conjunction of what they returned. A report() that raises leaves run()
\* with the exception.
ReportAndReturn ==
    /\ pc = "report"
    /\ \E verdicts \in [DOMAIN test_reporters -> Verdicts] :
        LET n == AskedBeforeRaise(test_reporters, fault)
            raises == n < Len(test_reporters) IN
        /\ report' = IF raises THEN <<>> ELSE verdicts
        /\ asked' = [r \in DOMAIN asked |->
                        IF \E i \in 1..(IF raises THEN n + 1 ELSE n) : test_reporters[i] = r
                        THEN asked[r] + 1 ELSE asked[r]]
        /\ run_result' = IF raises THEN None ELSE Some(AllReports(verdicts))
        /\ pc' = IF raises THEN "raised" ELSE "done"
    /\ UNCHANGED <<runner_vars, idx, test_case, observed, coverage_calls, profiles,
                   instantiated, ran, interrupts, calls, discover_frame, fault, reporter_vars, prog>>

RunStep ==
    \/ ForNext
    \/ Construct
    \/ CheckRunnable
    \/ RegisterCallbacks
    \/ CoverageStart
    \/ InvokeRun
    \/ MethodStart
    \/ MethodComplete
    \/ RunReturns
    \/ CoverageStop
    \/ Interrupt
    \/ ReportAndReturn

Next ==
    \/ NewRunner
    \/ Discover
    \/ StartRun
    \/ RunStep

Spec == Init /\ [][Next]_vars

\* ------------------------------------------- a reporter that raises (faults)
\* The same runner and calls, with one reporter operation that raises, of a
\* reporter the runner has.
InitFaulty ==
    /\ \E i \in RunnerInputs :
        /\ InitRunner(i.table, i.cov, i.prof, i.reporters)
        /\ \E f \in Faults :
            /\ \E k \in DOMAIN i.reporters : i.reporters[k] = Val(f).reporter
            /\ fault = f
    /\ RunIdle
    /\ calls = 0
    /\ discover_frame = None
    /\ prog = NoProgram
    /\ ReportersIdle

SpecFaulty == InitFaulty /\ [][Next]_vars

\* -------------------------------------------------------------- TestProgram
\* test_program.py lines 30-32
ACTION_RUN_TESTS == 0

ACTION_LIST_SUITES == 1

ACTION_LIST_TESTS == 2

\* The parsed command line (parse_test_runner_command_line_args): the test
\* path, the options the driver reads, and the method overrides built from
\* the positional arguments.
ProgramOptions ==
    { [test_path |-> p, bucket |-> b, bucket_count |-> n, bucket_overrides |-> o,
       action |-> a, overrides |-> m, coverage |-> c, profile |-> f,
       json_results |-> j] :
        p \in {"tests/sub", "missing"}, b \in Buckets, n \in BucketCounts,
        o \in BucketOverrideTables,
        a \in {ACTION_RUN_TESTS, ACTION_LIST_SUITES, ACTION_LIST_TESTS},
        m \in MethodOverrideTables, c \in BOOLEAN, f \in BOOLEAN, j \in BOOLEAN }

\* Lines 101-108: the reporters of a command line
ReportersOf(options) ==
    IF options.json_results THEN <<"text", "json">> ELSE <<"text">>

\* Lines 146-156: the command line is parsed and the runner built from it.
InitProgram ==
    /\ \E o \in ProgramOptions :
        /\ InitRunner(Some(o.overrides), o.coverage, o.profile, ReportersOf(o))
        /\ prog = [stage |-> "discover", options |-> o, exit_status |-> None,
                   error |-> None]
    /\ RunIdle
    /\ calls = 0
    /\ discover_frame = None
    /\ fault = NoFault
    /\ ReportersIdle

\* The status the process ends with when an exception other than SystemExit
\* reaches the top level: the interpreter prints the traceback and exits 1.
UncaughtExitStatus == 1

\* Lines 158-162: discover; a DiscoveryError is logged and the process exits
\* with status 1, any other exception is not caught.
ProgDiscover ==
    /\ prog.stage = "discover"
    /\ LET o == prog.options
           r == DiscoverCall(test_case_classes, module_method_overrides, o.test_path,
                             o.bucket, o.bucket_count, o.bucket_overrides) IN
        /\ test_case_classes' = r.classes
        /\ discover_frame' = Some([path |-> o.test_path, bucket |-> o.bucket,
                                   bucket_count |-> o.bucket_count,
                                   bucket_overrides |-> o.bucket_overrides,
                                   before |-> test_case_classes,
                                   overrides |-> module_method_overrides,
                                   outcome |-> r.outcome])
        /\ prog' = CASE r.outcome = "returned" -> [prog EXCEPT !.stage = "dispatch"]
                     [] r.outcome = "DiscoveryError" ->
                            [prog EXCEPT !.stage = "exited", !.exit_status = Some(1),
                                         !.error = Some(r.outcome)]
                     [] OTHER ->
                            [prog EXCEPT !.stage = "exited",
                                         !.exit_status = Some(UncaughtExitStatus),
                                         !.error = Some(r.outcome)]
    /\ UNCHANGED <<module_method_overrides, default_overrides, uses_default,
                   built_overrides, coverage, profile, test_reporters, run_vars,
                   calls, fault, reporter_vars>>

\* Python truthiness of an optional int
TruthyInt(v) == ~IsNone(v) /\ Val(v) # 0

\* Lines 175-176: " (bucket %d of %d)" % (bucket, bucket_count) raises TypeError
\* when bucket is None.
BucketTextRaises(options) == TruthyInt(options.bucket_count) /\ IsNone(options.bucket)

\* Lines 164-178: the listing actions print and exit 0; the run action logs the
\* start of the run and calls runner.run().
ProgDispatch ==
    /\ prog.stage = "dispatch"
    /\ IF prog.options.action # ACTION_RUN_TESTS
       THEN /\ prog' = [prog EXCEPT !.stage = "exited", !.exit_status = Some(0)]
            /\ UNCHANGED run_vars
       ELSE IF BucketTextRaises(prog.options)
       THEN /\ prog' = [prog EXCEPT !.stage = "exited",
                                    !.exit_status = Some(UncaughtExitStatus),
                                    !.error = Some("TypeError")]
            /\ UNCHANGED run_vars
       ELSE /\ prog' = [prog EXCEPT !.stage = "run"]
            /\ RunReset("for")
    /\ discover_frame' = None
    /\ UNCHANGED <<runner_vars, calls, fault, reporter_vars>>

\* Line 179 as sys.exit(result)
ExitStatus_Unnegated(result) == IF result THEN 1 ELSE 0

\* Line 179: sys.exit(not result); False is status 0 and True is status 1.
ExitStatus(result) == IF result THEN 0 ELSE 1

ProgExit ==
    /\ prog.stage = "run"
    /\ pc = "done"
    /\ prog' = [prog EXCEPT !.stage = "exited",
                            !.exit_status = Some(ExitStatus(Val(run_result)))]
    /\ UNCHANGED <<runner_vars, run_vars, calls, discover_frame, fault, reporter_vars>>

NextProgram ==
    \/ ProgDiscover
    \/ ProgDispatch
    \/ ProgExit
    \/ RunStep

SpecProgram == InitProgram /\ [][NextProgram]_vars

\* =================================================================== claims
Range(seq) == {seq[i] : i \in DOMAIN seq}

Last(seq) == seq[Len(seq)]

\* What the last discover call appended to the admitted list
Appended(f) == SubSeq(test_case_classes, Len(f.before) + 1, Len(test_case_classes))

\* The admission rule as the specification words it, for a call with frame f
RuleBucketPasses(c, f) ==
    \/ f.bucket = None
    \/ /\ CmpStr(c) \in DOMAIN f.bucket_overrides
       /\ f.bucket = <<f.bucket_overrides[CmpStr(c)]>>
    \/ /\ CmpStr(c) \notin DOMAIN f.bucket_overrides
       /\ f.bucket_count # None
       /\ f.bucket_count[1] > 0
       /\ f.bucket = <<HashOf(c) % f.bucket_count[1]>>

RuleNamed(c, f) == f.overrides = EmptyDict \/ c.name \in DOMAIN f.overrides

\* C1: a discover call that returns has appended to the admitted list, in
\* discovery order, exactly the discovered classes that pass the bucket filter
\* (bucket unset, or override equal to the bucket, or no override and computed
\* bucket equal to the bucket) and that the method-override table admits (the
\* table is empty or names the class); a call that fails with DiscoveryError
\* appends nothing.
C1_AdmittedIffBucketAndNamed ==
    discover_frame # None =>
        LET f == discover_frame[1] IN
        /\ f.outcome = "returned" =>
              test_case_classes =
                  f.before \o SelectSeq(Discovered(f.path),
                                 LAMBDA c : RuleBucketPasses(c, f) /\ RuleNamed(c, f))
        /\ f.outcome = "DiscoveryError" => test_case_classes = f.before

\* C1's case: with a non-empty table, a class that passes the bucket filter but
\* is not named is left out while a named one is admitted.
C1_Witness ==
    /\ discover_frame # None
    /\ discover_frame[1].outcome = "returned"
    /\ discover_frame[1].overrides # EmptyDict
    /\ discover_frame[1].bucket = None
    /\ discover_frame[1].path = "tests"
    /\ ClassB1 \notin Range(Appended(discover_frame[1]))
    /\ Appended(discover_frame[1]) = <<ClassA1, ClassA2>>

\* C2: in a discover call that returns with a requested bucket, a discovered
\* class that has a bucket override (and that the method-override table admits)
\* is admitted exactly when its override equals the requested bucket, whatever
\* its computed hash bucket is.
C2_OverrideDecidesBucket ==
    discover_frame # None =>
        LET f == discover_frame[1] IN
        (f.outcome = "returned" /\ f.bucket # None) =>
            \A c \in Range(Discovered(f.path)) :
                (CmpStr(c) \in DOMAIN f.bucket_overrides /\ RuleNamed(c, f)) =>
                    (c \in Range(Appended(f))
                        <=> f.bucket_overrides[CmpStr(c)] = f.bucket[1])

\* C2's case: m1.A is overridden to bucket 1, its computed bucket is 0, bucket 1
\* is requested and the class is admitted.
C2_Witness ==
    /\ discover_frame # None
    /\ discover_frame[1].outcome = "returned"
    /\ discover_frame[1].bucket = <<1>>
    /\ discover_frame[1].bucket_count = <<2>>
    /\ CmpStr(ClassA1) \in DOMAIN discover_frame[1].bucket_overrides
    /\ discover_frame[1].bucket_overrides[CmpStr(ClassA1)] = 1
    /\ HashOf(ClassA1) % 2 = 0
    /\ ClassA1 \in Range(Appended(discover_frame[1]))

\* C3: a discover call with bucket_count 0 or unset and an empty method-override
\* table, on a path that resolves, completes without error and admits every
\* discovered class, whatever the requested bucket.
C3_NoBucketCountAdmitsAll ==
    discover_frame # None =>
        LET f == discover_frame[1] IN
        (/\ f.bucket_count \in {None, <<0>>}
         /\ f.overrides = EmptyDict
         /\ f.outcome # "DiscoveryError") =>
            /\ f.outcome = "returned"
            /\ Appended(f) = Discovered(f.path)

\* C4: when run() returns, it has asked every reporter and its result is true
\* exactly when every reporter's verdict is true; a false or absent verdict of
\* one reporter makes the result false.
C4_RunReturnsAndOfVerdicts ==
    pc = "done" =>
        /\ Len(report) = Len(test_reporters)
        /\ run_result # None
        /\ run_result[1] = (\A i \in 1..Len(report) : report[i] = "True")

\* C4's case: two reporters, the first satisfied, the second without a verdict,
\* and run() has returned false.
C4_Witness ==
    /\ pc = "done"
    /\ Len(test_reporters) = 2
    /\ report = <<"True", "None">>
    /\ run_result = <<FALSE>>
    /\ ran # <<>>

\* The interrupt that reached run()'s except clause, if there is one
Caught == SelectSeq(interrupts, LAMBDA i : ~i.absorbed)

\* The iteration of the current class is complete: its methods have all run
\* and every coverage start has its stop.
ClassFinished ==
    /\ test_case # None =>
          (test_case[1].todo = <<>> /\ test_case[1].current = None)
    /\ coverage_calls # <<>> => Last(coverage_calls) = <<"stop">>

\* C5 as stated: when run() has left the loop after an interrupt that arrived
\* while a class was running, that class has finished being iterated over,
\* coverage bracket included.
C5_NoPartialClassAbort ==
    (pc \in {"report", "done"} /\ Caught # <<>> /\ Caught[1].at = "running") =>
        ClassFinished

\* C5, amended: an interrupt that arrives inside the loop takes effect at
\* once. Unless it is a SystemExit absorbed by the profiler (then the class's
\* run is abandoned and the loop goes on with the coverage stop), control goes
\* straight to Reporting: the rest of the current class's iteration (remaining
\* methods, coverage stop) is skipped, no further class is constructed or run,
\* and nothing of it happens later in this run().
C5_InterruptEndsLoopAtOnce ==
    [][ /\ (Len(interrupts') = Len(interrupts) + 1 /\ ~Last(interrupts').absorbed) =>
            /\ pc' = "report"
            /\ UNCHANGED <<idx, test_case, observed, coverage_calls, instantiated, ran>>
        /\ (Len(interrupts') = Len(interrupts) + 1 /\ Last(interrupts').absorbed) =>
            /\ pc' = "coverage_stop"
            /\ UNCHANGED <<idx, test_case, observed, coverage_calls, instantiated, ran>>
        /\ pc = "report" =>
            /\ pc' \in {"done", "raised"}
            /\ UNCHANGED <<idx, test_case, observed, coverage_calls, instantiated, ran>>
      ]_vars

\* C5's case: an interrupt arrived during a class's run, after its first
\* method; run() is at Reporting with a method of that class never run and
\* coverage started but not stopped.
C5_Witness ==
    /\ pc = "report"
    /\ Caught # <<>>
    /\ Caught[1].at = "running"
    /\ test_case # None
    /\ test_case[1].todo = <<"t2">>
    /\ test_case[1].current = None
    /\ coverage_calls # <<>>
    /\ Last(coverage_calls)[1] = "start"

\* C6: when an interrupt has reached run() at loop position k, no class at a
\* later position is ever constructed or run, the interrupt does not leave
\* run(), and when run() has returned every reporter has been asked for its
\* verdict exactly once, the result is the conjunction of the verdicts, and
\* the reporters have seen method events of classes that ran only.
C6_InterruptStopsAndReports ==
    Caught # <<>> =>
        /\ pc \in {"report", "done"}
        /\ \A j \in Range(instantiated) \cup Range(ran) : j <= Caught[1].idx
        /\ \A k \in DOMAIN test_reporters :
              /\ \A e \in Range(observed[test_reporters[k]]) : e[2] \in Range(ran)
              /\ asked[test_reporters[k]] = IF pc = "done" THEN 1 ELSE 0
        /\ pc = "done" =>
              /\ Len(report) = Len(test_reporters)
              /\ run_result = <<\A i \in 1..Len(report) : report[i] = "True">>

\* C6's case: three classes admitted, the interrupt arrived at the first one
\* after a method had been reported, and run() has returned.
C6_Witness ==
    /\ pc = "done"
    /\ Caught # <<>>
    /\ Caught[1].idx = 1
    /\ Len(test_case_classes) = 3
    /\ ran = <<1>>
    /\ instantiated = <<1>>
    /\ observed["text"] # <<>>
    /\ asked["text"] = 1

\* C7: whenever the run of a class instance has been invoked, the instance
\* holds, for every reporter in test_reporters order, the reporter's
\* method-start handler and then its method-complete handler, and nothing
\* else.
C7_RegisteredBeforeRun ==
    (ran # <<>> /\ Last(ran) = idx /\ test_case # None) =>
        LET cbs == test_case[1].callbacks IN
        /\ Len(cbs) = 2 * Len(test_reporters)
        /\ \A k \in DOMAIN test_reporters :
              /\ cbs[2 * k - 1] = [event |-> "test_start", reporter |-> test_reporters[k]]
              /\ cbs[2 * k] = [event |-> "test_complete", reporter |-> test_reporters[k]]

\* C7's case: a class is running with two reporters registered.
C7_Witness ==
    /\ pc = "running"
    /\ Len(test_reporters) = 2
    /\ Last(ran) = idx
    /\ Len(test_case[1].callbacks) = 4
    /\ test_case[1].current # None

\* run() has returned this aggregated verdict
RunReturned(v) == pc = "done" /\ run_result = <<v>>

\* C8 as stated: the process exits with status 0 exactly when discovery
\* succeeded and run() returned a successful verdict, with status 1 when the
\* verdict is failure, and with status 1, no class run and no reporter asked,
\* when discovery raised DiscoveryError.
C8_ExitZeroIffRunSucceeded ==
    prog.stage = "exited" =>
        /\ prog.exit_status = <<0>> <=> RunReturned(TRUE)
        /\ RunReturned(FALSE) => prog.exit_status = <<1>>
        /\ prog.error = <<"DiscoveryError">> =>
              /\ prog.exit_status = <<1>>
              /\ instantiated = <<>> /\ ran = <<>>
              /\ \A r \in DOMAIN asked : asked[r] = 0

\* C8, amended: when the action is to run the tests, the process exits with
\* status 0 exactly when discovery succeeded and run() returned a successful
\* verdict, and with status 1 when the verdict is failure; when discovery
\* raised DiscoveryError it exits with status 1, no class run and no reporter
\* asked; when the action is to list suites or tests and discovery succeeded,
\* it exits with status 0 without calling run().
C8_ExitStatus ==
    prog.stage = "exited" =>
        /\ prog.options.action = ACTION_RUN_TESTS =>
              (prog.exit_status = <<0>> <=> RunReturned(TRUE))
        /\ RunReturned(FALSE) => prog.exit_status = <<1>>
        /\ prog.error = <<"DiscoveryError">> =>
              /\ prog.exit_status = <<1>>
              /\ instantiated = <<>> /\ ran = <<>>
              /\ \A r \in DOMAIN asked : asked[r] = 0
        /\ (prog.options.action # ACTION_RUN_TESTS /\ prog.error = None) =>
              /\ prog.exit_status = <<0>>
              /\ pc = "idle"

\* C8's case: the tests were run, both reporters were satisfied and the
\* process has exited with status 0.
C8_Witness ==
    /\ prog.stage = "exited"
    /\ prog.options.action = ACTION_RUN_TESTS
    /\ RunReturned(TRUE)
    /\ ran # <<>>
    /\ report = <<"True", "True">>
    /\ prog.exit_status = <<0>>

\* The reporters of the runner other than the one that raises
Healthy == {test_reporters[k] : k \in DOMAIN test_reporters} \ {fault[1].reporter}

\* C9: a reporter that raises affects no other reporter: every other reporter
\* has received the start event of the method in progress, no exception of a
\* reporter leaves the loop, and when run() has ended every other reporter has
\* been asked for its verdict.
C9_FaultyReporterIsolated ==
    fault # NoFault =>
        /\ (test_case # None /\ test_case[1].current # None) =>
              \A r \in Healthy :
                  <<"test_start", idx, test_case[1].current[1]>> \in Range(observed[r])
        /\ pc \in {"done", "raised"} => \A r \in Healthy : asked[r] = 1

\* C10: the method-override table holds exactly the entries it was built with
\* from the invocation arguments, after any sequence of discover and run
\* calls.
C10_OverridesReadOnly == module_method_overrides = built_overrides

\* ========================================================== console reporter
\* test_logger.py, TextTestLogger and ColorlessTextTestLogger.

\* How many method results one console or JSON reporter is handed
MaxResults == 3

\* test_logger.py lines 34-36
VERBOSITY_SILENT == 0

VERBOSITY_NORMAL == 1

VERBOSITY_VERBOSE == 2

Verbosities == {VERBOSITY_SILENT, VERBOSITY_NORMAL, VERBOSITY_VERBOSE}

\* Line 51: the colours report_test_result and report_stats use
RED == "31"

GREEN == "32"

YELLOW == "33"

\* A method result: its classification, and whether its method is in the
\* 'expected-failure' suite. A passing method of that suite is an unexpected
\* success.
TestResults ==
    { [kind |-> k, expected |-> e] :
        k \in {"failure", "error", "incomplete", "unknown"}, e \in BOOLEAN }
    \cup { [kind |-> "success", expected |-> FALSE],
           [kind |-> "unexpected_success", expected |-> TRUE] }

\* The attributes of a result that the reporters read
success(result) == result.kind \in {"success", "unexpected_success"}

unexpected_success(result) == result.kind = "unexpected_success"

failure(result) == result.kind = "failure"

error(result) == result.kind = "error"

incomplete(result) == result.kind = "incomplete"

\* test_method.im_class.in_suite(test_method, 'expected-failure')
in_suite(result) == result.expected

\* normalized_run_time() of a result
RunTimeText == "0.10s"

\* Lines 53-59 and 200-201: a written text is the sequence of its pieces; the
\* colouring logger wraps the message in an escape sequence, the colourless
\* one and a missing colour leave it bare.
_colorize(colored, message, color) ==
    IF ~colored \/ IsNone(color)
    THEN <<message>>
    ELSE <<"ESC[1;" \o Val(color) \o "m", message, "ESC[m">>

\* Line 67 with >= in place of >
SaysPerMethod_AlsoSilent(verbosity) == verbosity >= VERBOSITY_SILENT

\* Line 67: nothing is said per method at silent verbosity
SaysPerMethod(verbosity) == verbosity > VERBOSITY_SILENT

\* Lines 69-123: the glyph at normal verbosity and the words at verbose
\* verbosity, with the colour, for a result.
ResultMark(result) ==
    IF success(result)
    THEN IF ~unexpected_success(result)
         THEN [glyph |-> ".", words |-> "ok", color |-> Some(GREEN), time |-> TRUE]
         ELSE [glyph |-> ".", words |-> "UNEXPECTED SUCCESS", color |-> Some(RED),
               time |-> TRUE]
    ELSE IF failure(result)
    THEN IF in_suite(result)
         THEN [glyph |-> "f", words |-> "FAIL (EXPECTED)", color |-> Some(RED),
               time |-> TRUE]
         ELSE [glyph |-> "F", words |-> "FAIL", color |-> Some(RED), time |-> TRUE]
    ELSE IF error(result)
    THEN IF in_suite(result)
         THEN [glyph |-> "e", words |-> "ERROR (EXPECTED)", color |-> Some(RED),
               time |-> TRUE]
         ELSE [glyph |-> "E", words |-> "ERROR", color |-> Some(RED), time |-> TRUE]
    ELSE IF incomplete(result)
    THEN [glyph |-> "-", words |-> "INCOMPLETE", color |-> Some(YELLOW),
          time |-> FALSE]
    ELSE [glyph |-> "?", words |-> "UNKNOWN", color |-> None, time |-> FALSE]

\* Lines 66-123: what report_test_result writes to the stream, as the sequence
\* of the texts written (none at silent verbosity).
report_test_result(verbosity, colored, result) ==
    LET mark == ResultMark(result) IN
    IF ~SaysPerMethod(verbosity) THEN <<>>
    ELSE IF verbosity = VERBOSITY_NORMAL
    THEN << _colorize(colored, mark.glyph, mark.color) >>
    ELSE << _colorize(colored, mark.words, mark.color)
            \o (IF mark.time THEN <<" in ", RunTimeText>> ELSE <<>>) \o <<"\n">> >>

\* Lines 61-64: the method's name is written at verbose verbosity only
report_test_name(verbosity, name) ==
    IF verbosity >= VERBOSITY_VERBOSE THEN << <<name, " ... ">> >> ELSE <<>>

\* The result buffers the reporter keeps and hands to report_stats
ResultBuckets(results) ==
    [successful |-> SelectSeq(results, LAMBDA r : success(r) /\ ~unexpected_success(r)),
     unexpected_success |-> SelectSeq(results, unexpected_success),
     failed |-> SelectSeq(results, LAMBDA r : failure(r) \/ error(r)),
     incomplete |-> SelectSeq(results, incomplete),
     unknown |-> SelectSeq(results, LAMBDA r : r.kind = "unknown")]

\* Line 150 without the suite test
UnexpectedFailed_All(failed) == failed

\* Line 150: the failed results whose method is not in 'expected-failure'
UnexpectedFailed(failed) == SelectSeq(failed, LAMBDA r : ~in_suite(r))

\* Lines 140-164: the verdict and the counts of the summary line
report_stats(buckets) ==
    LET unexpected_failed == UnexpectedFailed(buckets.failed)
        overall_success == /\ unexpected_failed = <<>>
                           /\ buckets.unknown = <<>>
                           /\ buckets.incomplete = <<>>
    IN  [status |-> IF overall_success THEN "PASSED" ELSE "FAILED",
         color |-> IF overall_success THEN GREEN ELSE RED,
         test_method_count |-> Len(buckets.successful) + Len(buckets.unexpected_success)
                               + Len(buckets.failed) + Len(buckets.incomplete)
                               + Len(buckets.unknown),
         passed |-> Len(buckets.successful \o buckets.unexpected_success),
         unexpected |-> Len(buckets.unexpected_success),
         failed |-> Len(buckets.failed),
         expected |-> Len(buckets.failed) - Len(unexpected_failed)]

\* parse_test_runner_command_line_args, lines 101-105: the colouring or the
\* colourless console logger, at the verbosity of the command line.
InitConsole ==
    /\ \E v \in Verbosities, c \in BOOLEAN :
        console = [stage |-> "running", verbosity |-> v, colored |-> c,
                   method |-> None, stream |-> <<>>, results |-> <<>>,
                   summary |-> None]
    /\ json = NoJson
    /\ shards = NoShards
    /\ parsing = NoParsing
    /\ \E i \in {i \in RunnerInputs : IsNone(i.table) /\ ~i.cov /\ ~i.prof
                                      /\ i.reporters = <<"text">>} :
        InitRunner(i.table, i.cov, i.prof, i.reporters)
    /\ RunIdle
    /\ calls = 0
    /\ discover_frame = None
    /\ fault = NoFault
    /\ prog = NoProgram

console_frozen == <<runner_vars, run_vars, calls, discover_frame, fault, prog,
                    json, shards, parsing>>

\* test_start: the method's name is reported
ConsoleTestStart ==
    /\ console.stage = "running"
    /\ IsNone(console.method)
    /\ Len(console.results) < MaxResults
    /\ \E name \in {"A.t1"} :
        console' = [console EXCEPT
            !.method = Some(name),
            !.stream = @ \o report_test_name(console.verbosity, name)]
    /\ UNCHANGED console_frozen

\* test_complete: the result is reported and kept
ConsoleTestComplete ==
    /\ console.stage = "running"
    /\ ~IsNone(console.method)
    /\ \E result \in TestResults :
        console' = [console EXCEPT
            !.method = None,
            !.stream = @ \o report_test_result(console.verbosity, console.colored,
                                                result),
            !.results = Append(@, result)]
    /\ UNCHANGED console_frozen

\* report: the summary line starts with an empty line and the coloured status
ConsoleReport ==
    /\ console.stage = "running"
    /\ IsNone(console.method)
    /\ LET stats == report_stats(ResultBuckets(console.results)) IN
        console' = [console EXCEPT
            !.stage = "reported",
            !.summary = Some(stats),
            !.stream = @ \o << <<"\n">>,
                               _colorize(console.colored, stats.status,
                                         Some(stats.color)) \o <<".  ">> >>]
    /\ UNCHANGED console_frozen

NextConsole ==
    \/ ConsoleTestStart
    \/ ConsoleTestComplete
    \/ ConsoleReport

SpecConsole == InitConsole /\ [][NextConsole]_vars

\* ------------------------------------------------- claims: console reporter
\* A result that fails or errors
IsFailed(r) == r.kind \in {"failure", "error"}

\* The positions of the kept results that satisfy P
Positions(P(_)) == {i \in DOMAIN console.results : P(console.results[i])}

\* C11: the status of the summary is PASSED exactly when no kept result is
\* unknown, none is incomplete and every failed one is in the
\* 'expected-failure' suite; the expected failures and the unexpected successes
\* are counted in the summary, and the status written is that verdict.
C11_VerdictPassedIff ==
    console.stage = "reported" =>
        LET summary == Val(console.summary) IN
        /\ summary.status \in {"PASSED", "FAILED"}
        /\ summary.status = "PASSED" <=>
              \A i \in DOMAIN console.results :
                  LET r == console.results[i] IN
                  /\ r.kind # "unknown"
                  /\ r.kind # "incomplete"
                  /\ IsFailed(r) => r.expected
        /\ summary.expected = Cardinality(Positions(LAMBDA r : IsFailed(r) /\ r.expected))
        /\ summary.unexpected =
              Cardinality(Positions(LAMBDA r : r.kind = "unexpected_success"))
        /\ \E k \in DOMAIN Last(console.stream) :
              Last(console.stream)[k] = summary.status

\* A run with an expected failure and an unexpected success has passed.
C11_Witness ==
    /\ console.stage = "reported"
    /\ Val(console.summary).status = "PASSED"
    /\ Positions(LAMBDA r : IsFailed(r) /\ r.expected) # {}
    /\ Positions(LAMBDA r : r.kind = "unexpected_success") # {}

\* The pieces of a written text that are not colour escapes
Visible(text) ==
    SelectSeq(text, LAMBDA t : t \notin {"ESC[m"} \cup
                                  {"ESC[1;" \o c \o "m" : c \in {RED, GREEN, YELLOW}})

\* The glyph of a classification, whatever the method's suites
GlyphOfKind(r) ==
    CASE r.kind \in {"success", "unexpected_success"} -> "."
      [] r.kind = "failure" -> "F"
      [] r.kind = "error" -> "E"
      [] r.kind = "incomplete" -> "-"
      [] OTHER -> "?"

\* The glyph of a classification, lower case for a failure or an error of a
\* method in the 'expected-failure' suite
GlyphOfResult(r) ==
    CASE r.kind = "failure" /\ r.expected -> "f"
      [] r.kind = "error" /\ r.expected -> "e"
      [] OTHER -> GlyphOfKind(r)

\* What has been written per method is one glyph for each kept result, in
\* order, at normal verbosity and nothing at silent verbosity.
GlyphsWritten(Glyph(_)) ==
    (console.stage = "running" /\ IsNone(console.method)) =>
        /\ console.verbosity = VERBOSITY_NORMAL =>
              /\ Len(console.stream) = Len(console.results)
              /\ \A i \in DOMAIN console.results :
                    Visible(console.stream[i]) = <<Glyph(console.results[i])>>
        /\ console.verbosity = VERBOSITY_SILENT => console.stream = <<>>

\* C12 as stated: at normal verbosity one glyph is written per completed
\* result, '.', 'F', 'E', '-' or '?' by its classification alone, and at silent
\* verbosity nothing is written per method.
C12_GlyphByClassification == GlyphsWritten(GlyphOfKind)

\* C12: at normal verbosity one glyph is written per completed result: '.' for
\* a success, 'F' for a failure and 'E' for an error, in lower case ('f', 'e')
\* when the method is in the 'expected-failure' suite, '-' for an incomplete
\* result and '?' otherwise; at silent verbosity nothing is written per method.
C12_GlyphByClassificationAndSuite == GlyphsWritten(GlyphOfResult)

\* Three results at normal verbosity, an expected failure among them
C12_Witness ==
    /\ console.stage = "running"
    /\ IsNone(console.method)
    /\ console.verbosity = VERBOSITY_NORMAL
    /\ Len(console.results) = MaxResults
    /\ Positions(LAMBDA r : r.kind = "failure" /\ r.expected) # {}
    /\ Positions(LAMBDA r : r.kind = "unknown") # {}

\* ============================================================= JSON reporter
\* json_reporter.py, JSONReporter and ResultLogHandler.

\* Method results one JSON reporter is handed
MaxCompletes == 2

\* Log records emitted to the root logger while the reporter lives
MaxLogs == 2

\* Calls of test_report on one reporter
MaxReports == 2

\* A text is the sequence of its characters.
Whitespace == {" ", "\n", "\t"}

RECURSIVE LStrip(_)
LStrip(text) ==
    IF text # <<>> /\ Head(text) \in Whitespace THEN LStrip(Tail(text)) ELSE text

RECURSIVE RStrip(_)
RStrip(text) ==
    IF text # <<>> /\ text[Len(text)] \in Whitespace
    THEN RStrip(SubSeq(text, 1, Len(text) - 1))
    ELSE text

\* str.strip()
Strip(text) == LStrip(RStrip(text))

\* exception.format_exception_info(exception_info): the lines of the formatted
\* traceback, the exception's own line last.
format_exception_info(exception_info) ==
    CASE exception_info = "AssertionError" ->
            << <<"T", "b", ":", "\n">>, <<" ", "f", "\n">>, <<"A", "E", ":", " ", "x", "\n">> >>
      [] OTHER ->
            << <<"T", "b", ":", "\n">>, <<"K", "E", "\n">> >>

\* The results handed to test_complete: a passing test, a failing one, a
\* fixture that raised (success is None) and a passing excluded method.
JsonResults ==
    { [class |-> "A", method |-> "t1", module |-> "m1", start_time |-> "s1",
       end_time |-> "e1", run_time |-> "r1", fixture |-> FALSE, excluded |-> FALSE,
       success |-> "True", exception_info |-> None],
      [class |-> "A", method |-> "t2", module |-> "m1", start_time |-> "s2",
       end_time |-> "e2", run_time |-> "r2", fixture |-> FALSE, excluded |-> FALSE,
       success |-> "False", exception_info |-> Some("AssertionError")],
      [class |-> "B", method |-> "setUp", module |-> "m2", start_time |-> "s3",
       end_time |-> "e3", run_time |-> "r3", fixture |-> TRUE, excluded |-> FALSE,
       success |-> "None", exception_info |-> Some("KeyError")],
      [class |-> "B", method |-> "t3", module |-> "m2", start_time |-> "s4",
       end_time |-> "e4", run_time |-> "r4", fixture |-> FALSE, excluded |-> TRUE,
       success |-> "True", exception_info |-> None] }

\* --extra-json-info: JSON text of an object
ExtraJsonInfos == {"{host}", "{clash}"}

\* simplejson.loads of the texts above: an object with a key of its own, and
\* one whose keys are those the reporter writes itself.
loads(text) ==
    IF text = "{host}"
    THEN [k \in {"host"} |-> "h1"]
    ELSE [k \in {"label", "bucket", "name", "start_time", "end_time", "success",
                 "tb", "error"} |->
            CASE k = "tb" -> << <<"x">> >>
              [] k = "error" -> <<"x">>
              [] k = "bucket" -> 9
              [] OTHER -> "extra"]

\* dict.update(other)
DictUpdate(d, other) ==
    [k \in (DOMAIN d) \cup (DOMAIN other) |-> IF k \in DOMAIN other THEN other[k] ELSE d[k]]

\* simplejson.dumps of a bool
JsonBool(b) == IF b THEN "true" ELSE "false"

\* The options the reporter reads
JsonOptions ==
    { [label |-> l, extra_json_info |-> x, bucket |-> b, bucket_count |-> n,
       json_results_logging |-> g] :
        l \in {None, Some("nightly")},
        x \in {None} \cup {Some(t) : t \in ExtraJsonInfos},
        b \in {None, Some(0)}, n \in {None, Some(2)}, g \in BOOLEAN }

\* ResultLogHandler.results(), lines 18-19: the kept records, formatted
HandlerResults(handler) ==
    [i \in DOMAIN handler.records |-> <<"INFO", handler.records[i].msg>>]

\* The handler the reporter holds, among those of the root logger
HandlerOf(j) == CHOOSE h \in {j.root[i] : i \in DOMAIN j.root} : h.id = Val(j.log_hndl)

\* Lines 48-59: the label, the extra info and the bucket options, in the order
\* the code writes them.
OptionFields(options) ==
    LET labelled == IF ~IsNone(options.label)
                    THEN DictPut(EmptyDict, "label", Val(options.label))
                    ELSE EmptyDict
        merged == IF ~IsNone(options.extra_json_info)
                  THEN DictUpdate(labelled, loads(Val(options.extra_json_info)))
                  ELSE labelled
        bucketed == IF ~IsNone(options.bucket)
                    THEN DictPut(merged, "bucket", Val(options.bucket))
                    ELSE merged
    IN  IF ~IsNone(options.bucket_count)
        THEN DictPut(bucketed, "bucket_count", Val(options.bucket_count))
        ELSE bucketed

\* Lines 61-75: the fields of the result
ResultFields(result) ==
    [k \in {"name", "module", "start_time", "end_time", "run_time", "type", "success"} |->
        CASE k = "name" -> result.class \o "." \o result.method
          [] k = "module" -> result.module
          [] k = "start_time" -> result.start_time
          [] k = "end_time" -> result.end_time
          [] k = "run_time" -> result.run_time
          [] k = "type" -> IF result.fixture THEN "fixture"
                           ELSE IF result.excluded THEN "excluded" ELSE "test"
          [] OTHER -> JsonBool(Truthy(result.success))]

\* Lines 48-75 with the options merged in last
BaseFields_OptionsLast(options, result) ==
    DictUpdate(ResultFields(result), OptionFields(options))

\* Lines 48-75: the options first, the result's fields over them
BaseFields(options, result) == DictUpdate(OptionFields(options), ResultFields(result))

\* Lines 76-80: the traceback, its last line stripped, and the captured log
FailureFields(j, result) ==
    LET tb == format_exception_info(Val(result.exception_info))
        failed == [k \in {"tb", "error"} |->
                     IF k = "tb" THEN tb ELSE Strip(tb[Len(tb)])]
    IN  IF ~IsNone(j.log_hndl)
        THEN DictPut(failed, "log", HandlerResults(HandlerOf(j)))
        ELSE failed

\* Lines 48-80: out_result
OutResult(j, result) ==
    IF ~Truthy(result.success)
    THEN DictUpdate(BaseFields(j.options, result), FailureFields(j, result))
    ELSE BaseFields(j.options, result)

\* simplejson.dumps(out_result) and "\n", as the file holds them
Dumps(out_result) == [text |-> "json", obj |-> out_result]

Newline == [text |-> "\n", obj |-> EmptyDict]

\* file.write that replaces what the file holds
FileWrite_Overwriting(file, chunk) == [file EXCEPT !.content = <<chunk>>]

\* file.write on an open file
FileWrite(file, chunk) == [file EXCEPT !.content = Append(@, chunk)]

\* file.close() that empties a file closed before
FileClose_Truncating(file) ==
    IF file.closed THEN [file EXCEPT !.content = <<>>] ELSE [file EXCEPT !.closed = TRUE]

\* file.close(): closing a closed file does nothing
FileClose(file) == [file EXCEPT !.closed = TRUE]

\* Lines 33-44: the reporter's handler is taken off the root logger and, when
\* log capture is on, a fresh one is put on.
_reset_logging(j) ==
    LET removed == IF ~IsNone(j.log_hndl)
                   THEN SelectSeq(j.root, LAMBDA h : h.id # Val(j.log_hndl))
                   ELSE j.root
    IN  IF j.options.json_results_logging
        THEN [j EXCEPT !.root = Append(removed, [id |-> j.next_id, records |-> <<>>]),
                       !.log_hndl = Some(j.next_id),
                       !.next_id = @ + 1]
        ELSE [j EXCEPT !.root = removed]

\* Lines 23-31: the file is opened for appending, after what it holds already.
JsonConstructed(options, old) ==
    _reset_logging([stage |-> "open", options |-> options,
                    log_file |-> [content |-> old, closed |-> FALSE],
                    log_hndl |-> None, root |-> <<>>, next_id |-> 1,
                    method |-> None, started |-> 0, completed |-> <<>>,
                    emitted |-> <<>>, reports |-> 0, opened_at |-> Len(old)])

\* What the file of --json-results holds before the run
OldContents ==
    { <<>>,
      << Dumps([k \in {"name"} |-> "Old.t0"]), Newline >> }

InitJson ==
    /\ \E options \in JsonOptions, old \in OldContents :
        json = JsonConstructed(options, old)
    /\ console = NoConsole
    /\ shards = NoShards
    /\ parsing = NoParsing
    /\ \E i \in {i \in RunnerInputs : IsNone(i.table) /\ ~i.cov /\ ~i.prof
                                      /\ i.reporters = <<"text", "json">>} :
        InitRunner(i.table, i.cov, i.prof, i.reporters)
    /\ RunIdle
    /\ calls = 0
    /\ discover_frame = None
    /\ fault = NoFault
    /\ prog = NoProgram

json_frozen == <<runner_vars, run_vars, calls, discover_frame, fault, prog,
                 console, shards, parsing>>

\* test_start: the reporter does nothing; the method is under way.
JsonTestStart ==
    /\ json.stage = "open"
    /\ IsNone(json.method)
    /\ json.started < MaxCompletes
    /\ json' = [json EXCEPT !.started = @ + 1, !.method = Some(json.started + 1)]
    /\ UNCHANGED json_frozen

\* A record is logged somewhere in the process, before, during, between or
\* after the methods: every handler on the root logger is handed it
\* (ResultLogHandler.emit, lines 15-16). The handler's level is the verbosity
\* (line 42), which is below the level of every record.
JsonEmit ==
    /\ json.stage = "open"
    /\ Len(json.emitted) < MaxLogs
    /\ LET record == [msg |-> Len(json.emitted) + 1] IN
        json' = [json EXCEPT
            !.root = [i \in DOMAIN @ |-> [@[i] EXCEPT !.records = Append(@, record)]],
            !.emitted = Append(@, [msg |-> record.msg, during |-> json.method])]
    /\ UNCHANGED json_frozen

\* Lines 46-85: test_complete. The writes at lines 82-83 raise ValueError on a
\* closed file, and line 85 is then not reached.
JsonTestComplete ==
    /\ json.stage = "open"
    /\ ~IsNone(json.method)
    /\ \E result \in JsonResults :
        LET out_result == OutResult(json, result)
            done == [result |-> result, no |-> Val(json.method),
                     written |-> ~json.log_file.closed]
        IN  IF json.log_file.closed
            THEN json' = [json EXCEPT !.stage = "raised", !.method = None,
                                      !.completed = Append(@, done)]
            ELSE json' = _reset_logging(
                            [json EXCEPT
                                !.log_file = FileWrite(FileWrite(@, Dumps(out_result)),
                                                       Newline),
                                !.method = None,
                                !.completed = Append(@, done)])
    /\ UNCHANGED json_frozen

\* Lines 87-88: test_report closes the file.
JsonTestReport ==
    /\ json.stage = "open"
    /\ IsNone(json.method)
    /\ json.reports < MaxReports
    /\ json' = [json EXCEPT !.log_file = FileClose(@), !.reports = @ + 1]
    /\ UNCHANGED json_frozen

NextJson ==
    \/ JsonTestStart
    \/ JsonEmit
    \/ JsonTestComplete
    \/ JsonTestReport

SpecJson == InitJson /\ [][NextJson]_vars

\* ---------------------------------------------------- claims: JSON reporter
\* The object written for the k-th completed result
WrittenObject(k) == json.log_file.content[json.opened_at + 2 * k - 1].obj

\* The completed results whose record was written
WrittenResults == {k \in DOMAIN json.completed : json.completed[k].written}

C14_LogIsMethodScoped ==
    LET LogOf(k) == {WrittenObject(k)["log"][i][2] :
                        i \in DOMAIN WrittenObject(k)["log"]}
        During(k) == {json.emitted[i].msg : i \in
                        {i \in DOMAIN json.emitted :
                            json.emitted[i].during = Some(json.completed[k].no)}}
        Logged == {k \in WrittenResults : "log" \in DOMAIN WrittenObject(k)}
    IN  (json.stage # "none" /\ json.options.json_results_logging) =>
            /\ \A k \in WrittenResults :
                  ~Truthy(json.completed[k].result.success) => k \in Logged
            /\ \A k \in Logged : LogOf(k) = During(k)
            /\ \A k1, k2 \in Logged : k1 # k2 => LogOf(k1) \cap LogOf(k2) = {}

\* C15: the record of a result has 'success' as the result's flag, has 'tb'
\* and 'error' exactly when the result is not successful, and then 'tb' is the
\* formatted traceback and 'error' its last line, stripped.
C15_TracebackIffFailed ==
    json.stage # "none" =>
        \A k \in WrittenResults :
            LET result == json.completed[k].result
                obj == WrittenObject(k)
                ok == Truthy(result.success)
            IN  /\ obj["success"] = JsonBool(ok)
                /\ ("tb" \in DOMAIN obj) <=> ~ok
                /\ ("error" \in DOMAIN obj) <=> ~ok
                /\ ~ok =>
                      /\ obj["tb"] = format_exception_info(Val(result.exception_info))
                      /\ obj["error"] = Strip(obj["tb"][Len(obj["tb"])])

\* C16: the record of a result has 'name', 'success', 'start_time' and
\* 'end_time' with the result's values, whatever the label, the extra info and
\* the bucket options are.
C16_CoreKeysFromResult ==
    json.stage # "none" =>
        \A k \in WrittenResults :
            LET result == json.completed[k].result
                obj == WrittenObject(k)
            IN  /\ {"name", "success", "start_time", "end_time"} \subseteq DOMAIN obj
                /\ obj["name"] = result.class \o "." \o result.method
                /\ obj["success"] = JsonBool(result.success = "True")
                /\ obj["start_time"] = result.start_time
                /\ obj["end_time"] = result.end_time

\* A record written with a label, bucket options and an extra-info object that
\* has keys of these names
C16_Witness ==
    /\ json.stage # "none"
    /\ WrittenResults # {}
    /\ ~IsNone(json.options.label)
    /\ ~IsNone(json.options.bucket)
    /\ json.options.extra_json_info = Some("{clash}")
    /\ \E k \in WrittenResults : WrittenObject(k)["success"] = "false"

\* C17: a test_report on a closed file leaves the file as it was.
C17_SecondFinalizeKeepsRecords ==
    [][ (json.log_file.closed /\ json'.reports = json.reports + 1) =>
            json'.log_file = json.log_file ]_vars

\* test_report called twice on a file that holds records of this run
C17_Witness ==
    /\ json.stage # "none"
    /\ json.reports = 2
    /\ WrittenResults # {}
    /\ json.log_file.closed

\* ========================================================= sharded discovery
\* One test tree split over several invocations: each is a fresh TestRunner
\* whose discover is called with the same path, bucket count and bucket
\* overrides and with its own requested bucket.

\* The largest bucket value requested
MaxShard == 5

ShardCounts == {Some(1), Some(2), Some(3)}

InitShards ==
    /\ \E path \in TestPaths, bucket_count \in ShardCounts,
          bucket_overrides \in BucketOverrideTables, overrides \in MethodOverrideTables :
        shards = [stage |-> "sharding", path |-> path, bucket_count |-> bucket_count,
                  bucket_overrides |-> bucket_overrides, overrides |-> overrides,
                  admitted |-> EmptyDict]
    /\ console = NoConsole
    /\ json = NoJson
    /\ parsing = NoParsing
    /\ \E i \in {i \in RunnerInputs : IsNone(i.table) /\ ~i.cov /\ ~i.prof
                                      /\ i.reporters = <<"text">>} :
        InitRunner(i.table, i.cov, i.prof, i.reporters)
    /\ RunIdle
    /\ calls = 0
    /\ discover_frame = None
    /\ fault = NoFault
    /\ prog = NoProgram

\* discover of the invocation that requests this bucket (lines 67-74), on a
\* runner that has admitted nothing yet
ShardDiscover ==
    /\ shards.stage = "sharding"
    /\ \E bucket \in (0 .. MaxShard) \ DOMAIN shards.admitted :
        LET r == DiscoverCall(<<>>, shards.overrides, shards.path, Some(bucket),
                              shards.bucket_count, shards.bucket_overrides) IN
        shards' = [shards EXCEPT !.admitted = DictPut(@, bucket, r.classes)]
    /\ UNCHANGED <<runner_vars, run_vars, calls, discover_frame, fault, prog,
                   console, json, parsing>>

NextShards == ShardDiscover

SpecShards == InitShards /\ [][NextShards]_vars

\* ------------------------------------------------ claims: sharded discovery
\* C18: with one bucket count above zero and one bucket-override table, no
\* class is admitted by the discover calls of two different requested buckets.
C18_AtMostOneBucket ==
    shards.stage = "sharding" =>
        \A b1, b2 \in DOMAIN shards.admitted :
            b1 # b2 => Range(shards.admitted[b1]) \cap Range(shards.admitted[b2]) = {}

\* The class's computed bucket and its overridden one both requested: the
\* class was admitted for the overridden one, with another class
C18_Witness ==
    /\ shards.stage = "sharding"
    /\ CmpStr(ClassA1) \in DOMAIN shards.bucket_overrides
    /\ ClassBucket(ClassA1, shards.bucket_count) = 0
    /\ {0, 1} \subseteq DOMAIN shards.admitted
    /\ {ClassA1, ClassA2} \subseteq Range(shards.admitted[1])
    /\ shards.admitted[0] = <<>>

\* ------------------------------------------------------ claims: the run loop
\* The instance run() has just built reports no runnable method.
NothingRunnable ==
    /\ test_case # NoInstance
    /\ RunnableTestMethods(Val(test_case).cls, Val(test_case).name_overrides) = <<>>

\* C19: for an instance with no runnable method, the step after the test at
\* lines 101-102 goes back to the for statement (or to the reporters when an
\* interrupt is caught there) with no callback registered on the instance, no
\* coverage call, no profile and no run of the instance; the for statement
\* then takes the next admitted class, or ends the loop after the last one.
C19_SkippedClassHasNoSteps ==
    [][ /\ (pc = "check" /\ NothingRunnable) =>
              /\ pc' \in {"for", "report"}
              /\ pc' = "report" => Len(interrupts') = Len(interrupts) + 1
              /\ Val(test_case).callbacks = <<>>
              /\ UNCHANGED <<test_case, coverage_calls, profiles, ran, observed>>
        /\ (pc = "for" /\ NothingRunnable /\ Len(interrupts') = Len(interrupts)) =>
              /\ UNCHANGED <<coverage_calls, profiles, ran, observed>>
              /\ IF idx < Len(test_case_classes)
                 THEN pc' = "construct" /\ idx' = idx + 1
                 ELSE pc' = "report" ]_vars

\* With coverage and profiling on, a class without runnable methods was
\* passed over and the class after it was run: one coverage bracket, one
\* profile, and events of the second class only.
C19_Witness ==
    /\ pc = "done"
    /\ coverage /\ profile
    /\ interrupts = <<>>
    /\ instantiated = <<1, 2>>
    /\ ran = <<2>>
    /\ ClassMethods(test_case_classes[1]) = <<>>
    /\ coverage_calls = << <<"start", Identity(test_case_classes[2])>>, <<"stop">> >>
    /\ profiles = << ProfileFile(test_case_classes[2]) >>

\* C20: with coverage on, the coverage calls of a run are start, stop, start,
\* stop, ...: a start is never followed by another start, and every start has
\* had its stop when the reporters are asked for their verdicts.
C20_CoverageBracketed ==
    coverage =>
        /\ \A i \in DOMAIN coverage_calls :
              coverage_calls[i][1] = IF i % 2 = 1 THEN "start" ELSE "stop"
        /\ pc \in {"report", "done", "raised"} => Len(coverage_calls) % 2 = 0

\* C21: the classes whose run has been invoked are positions of the admitted
\* list in increasing order, each at most once; a class's run is invoked only
\* when every earlier invoked run is over, and while one is under way it is
\* the last one invoked.
C21_SequentialInOrder ==
    /\ \A i, j \in DOMAIN ran : i < j => ran[i] < ran[j]
    /\ \A i \in DOMAIN ran : ran[i] \in 1 .. Len(test_case_classes)
    /\ \A i, j \in DOMAIN instantiated : i < j => instantiated[i] < instantiated[j]
    /\ pc \in {"construct", "check", "register", "coverage_start", "run"} =>
          \A i \in DOMAIN ran : ran[i] < idx
    /\ pc \in {"running", "coverage_stop"} => (ran # <<>> /\ Last(ran) = idx)

\* A run() that ran two classes, one after the other, to the end
C21_Witness ==
    /\ pc = "done"
    /\ interrupts = <<>>
    /\ Len(ran) = 2
    /\ Len(observed["text"]) >= 4

\* C22: once test_report has been called, no handler the reporter put on the
\* root logger is still there.
C22_HandlerReleasedAfterFinalize ==
    (json.stage # "none" /\ json.reports > 0) => json.root = <<>>

\* ============================================== command line and bucket file
\* test_program.py: _parse_test_runner_command_line_module_method_overrides
\* and get_bucket_overrides. A text is the sequence of its pieces; ".", ",",
\* "#", the digits and the whitespace characters are pieces of their own.

\* Positional arguments after the test path
MaxArgs == 3

\* Lines of a bucket-override file
MaxLines == 3

\* str.split(sep), from the left: the pieces between the separators
RECURSIVE SplitFrom(_, _, _, _)
SplitFrom(text, sep, piece, pieces) ==
    IF text = <<>> THEN Append(pieces, piece)
    ELSE IF Head(text) = sep
    THEN SplitFrom(Tail(text), sep, <<>>, Append(pieces, piece))
    ELSE SplitFrom(Tail(text), sep, Append(piece, Head(text)), pieces)

Split(text, sep) == SplitFrom(text, sep, <<>>, <<>>)

\* The positional arguments: a class, a class with a method, and a class
\* with a trailing dot
OverrideArgs ==
    { <<"A">>, <<"A", ".", "t1">>, <<"A", ".", "t2">>, <<"B", ".", "t1">>, <<"A", ".">> }

\* Lines 134-137: one argument's effect on the defaultdict(set). A class entry
\* that is None has no add(): AttributeError.
StoreOverride(table, module_name, method_name) ==
    IF method_name # <<>>
    THEN IF module_name \notin DOMAIN table
         THEN [table |-> DictPut(table, module_name, Some({method_name})),
               raised |-> FALSE]
         ELSE IF IsNone(table[module_name])
         THEN [table |-> table, raised |-> TRUE]
         ELSE [table |-> DictPut(table, module_name,
                                 Some(Val(table[module_name]) \cup {method_name})),
               raised |-> FALSE]
    ELSE [table |-> DictPut(table, module_name, None), raised |-> FALSE]

\* Lines 130-137: one pass of the loop over args[1:]
ParseArg ==
    /\ parsing.stage = "overrides"
    /\ parsing.outcome = "running"
    /\ parsing.i <= Len(parsing.args)
    /\ LET module_path_components == Split(parsing.args[parsing.i], ".")
           module_name == module_path_components[1]
           method_name == IF Len(module_path_components) > 1
                          THEN module_path_components[2] ELSE <<>>
           r == StoreOverride(parsing.table, module_name, method_name)
       IN  parsing' = [parsing EXCEPT
               !.table = r.table,
               !.i = @ + 1,
               !.outcome = IF r.raised THEN "AttributeError" ELSE "running"]
    /\ UNCHANGED <<runner_vars, run_vars, calls, discover_frame, fault, prog,
                   console, json, shards>>

\* Line 139: the table is returned
ParseReturn ==
    /\ parsing.stage = "overrides"
    /\ parsing.outcome = "running"
    /\ parsing.i > Len(parsing.args)
    /\ parsing' = [parsing EXCEPT !.outcome = "returned"]
    /\ UNCHANGED <<runner_vars, run_vars, calls, discover_frame, fault, prog,
                   console, json, shards>>

\* The lines of a bucket-override file: a comment, an empty line, a blank
\* line, three pairs (two for one class, one with a space before a two-digit
\* bucket) and an indented comment.
CommentLine == <<"#", "c", "\n">>

EmptyLine == <<"\n">>

BlankLine == <<" ", "\n">>

PairLines ==
    { <<"m1.A", ",", "1", "\n">>,
      <<"m1.A", ",", "2", "\n">>,
      <<"m1.B", ",", " ", "1", "2", "\n">> }

IndentedComment == <<" ", "#", "c", "\n">>

FileLines == {CommentLine, EmptyLine, BlankLine, IndentedComment} \cup PairLines

Digits == <<"0", "1", "2", "3", "4", "5", "6", "7", "8", "9">>

IsDigit(piece) == \E d \in DOMAIN Digits : Digits[d] = piece

DigitValue(piece) == (CHOOSE d \in DOMAIN Digits : Digits[d] = piece) - 1

RECURSIVE DecimalValue(_, _)
DecimalValue(text, acc) ==
    IF text = <<>> THEN acc
    ELSE DecimalValue(Tail(text), 10 * acc + DigitValue(Head(text)))

\* int(text): the surrounding whitespace is dropped; anything but digits
\* raises ValueError
IntRaises(text) ==
    \/ Strip(text) = <<>>
    \/ \E k \in DOMAIN Strip(text) : ~IsDigit(Strip(text)[k])

int(text) == DecimalValue(Strip(text), 0)

\* Line 50 keeping the bucket an identity already has
KeepOverride_First(overrides, test_module_and_class, bucket) ==
    DictSetDefault(overrides, test_module_and_class, bucket)

\* Line 50: overrides[test_module_and_class] = int(bucket)
KeepOverride(overrides, test_module_and_class, bucket) ==
    DictPut(overrides, test_module_and_class, bucket)

\* Lines 45-50: one line's effect on the table; a line that does not split
\* into two at the comma, or whose bucket is not an integer, raises ValueError.
get_bucket_overrides_line(overrides, line) ==
    IF line # <<>> /\ Head(line) = "#" THEN [overrides |-> overrides, raised |-> FALSE]
    ELSE IF Strip(line) = <<>> THEN [overrides |-> overrides, raised |-> FALSE]
    ELSE LET fields == Split(Strip(line), ",") IN
         IF Len(fields) # 2 \/ IntRaises(fields[2])
         THEN [overrides |-> overrides, raised |-> TRUE]
         ELSE [overrides |-> KeepOverride(overrides, fields[1], int(fields[2])),
               raised |-> FALSE]

\* Lines 44-50: one pass of the loop over the file's lines
ReadLine ==
    /\ parsing.stage = "buckets"
    /\ parsing.outcome = "running"
    /\ parsing.i <= Len(parsing.lines)
    /\ LET r == get_bucket_overrides_line(parsing.overrides, parsing.lines[parsing.i]) IN
        parsing' = [parsing EXCEPT
            !.overrides = r.overrides,
            !.i = @ + 1,
            !.outcome = IF r.raised THEN "ValueError" ELSE "running"]
    /\ UNCHANGED <<runner_vars, run_vars, calls, discover_frame, fault, prog,
                   console, json, shards>>

\* Lines 51-52: the file is closed and the table returned
ReadReturn ==
    /\ parsing.stage = "buckets"
    /\ parsing.outcome = "running"
    /\ parsing.i > Len(parsing.lines)
    /\ parsing' = [parsing EXCEPT !.outcome = "returned"]
    /\ UNCHANGED <<runner_vars, run_vars, calls, discover_frame, fault, prog,
                   console, json, shards>>

\* Every sequence of at most n members of a set
SeqsUpTo(S, n) == UNION {[1 .. k -> S] : k \in 0 .. n}

\* Either parser, about to read its first argument or line
InitParse ==
    /\ \/ \E args \in SeqsUpTo(OverrideArgs, MaxArgs) :
            parsing = [stage |-> "overrides", args |-> args, i |-> 1,
                       table |-> EmptyDict, outcome |-> "running"]
       \/ \E lines \in SeqsUpTo(FileLines, MaxLines) :
            parsing = [stage |-> "buckets", lines |-> lines, i |-> 1,
                       overrides |-> EmptyDict, outcome |-> "running"]
    /\ console = NoConsole
    /\ json = NoJson
    /\ shards = NoShards
    /\ \E i \in {i \in RunnerInputs : IsNone(i.table) /\ ~i.cov /\ ~i.prof
                                      /\ i.reporters = <<"text">>} :
        InitRunner(i.table, i.cov, i.prof, i.reporters)
    /\ RunIdle
    /\ calls = 0
    /\ discover_frame = None
    /\ fault = NoFault
    /\ prog = NoProgram

NextParse ==
    \/ ParseArg
    \/ ParseReturn
    \/ ReadLine
    \/ ReadReturn

SpecParse == InitParse /\ [][NextParse]_vars

\* ----------------------------------------------------------- claims: parsing
\* The table the arguments call for: a class named without a method is
\* unrestricted, any other class has the set of the methods named for it.
OverridesCalledFor(args) ==
    LET Named(c) == {k \in DOMAIN args : args[k][1] = c}
    IN  [c \in { <<args[k][1]>> : k \in DOMAIN args } |->
            IF \E k \in Named(c[1]) : Len(args[k]) < 3
            THEN None
            ELSE Some({ <<args[k][3]>> : k \in Named(c[1]) })]

\* C23: for every sequence of arguments the parsing ends by returning, and
\* the table returned is the one the arguments call for, in whatever order
\* they come.
C23_ParseOverridesTotal ==
    (parsing.stage = "overrides" /\ parsing.outcome # "running") =>
        /\ parsing.outcome = "returned"
        /\ parsing.table = OverridesCalledFor(parsing.args)

\* The identity and the bucket a pair line stands for
PairOf(line) ==
    [identity |-> <<line[1]>>,
     bucket |-> IF line[1] = "m1.B" THEN 12 ELSE IF line[3] = "1" THEN 1 ELSE 2]

\* The table a file's pair lines call for: for each identity, the bucket of
\* its last line
BucketsCalledFor(lines) ==
    LET Pairs == {k \in DOMAIN lines : lines[k] \in PairLines}
        LastOf(id) == CHOOSE k \in Pairs :
                          /\ PairOf(lines[k]).identity = id
                          /\ \A j \in Pairs : PairOf(lines[j]).identity = id => j <= k
    IN  [id \in {PairOf(lines[k]).identity : k \in Pairs} |->
            PairOf(lines[LastOf(id)]).bucket]

\* C24: for a file of comment lines, empty or blank lines and pair lines,
\* get_bucket_overrides returns, and the table has one entry for each identity
\* of a pair line, with the bucket of the identity's last line.
C24_BucketOverridesOfFile ==
    (/\ parsing.stage = "buckets"
     /\ parsing.outcome # "running"
     /\ IndentedComment \notin Range(parsing.lines)) =>
        /\ parsing.outcome = "returned"
        /\ parsing.overrides = BucketsCalledFor(parsing.lines)

\* A file with a comment between two lines for one identity: the second
\* line's bucket is the one kept
C24_Witness ==
    /\ parsing.stage = "buckets"
    /\ parsing.outcome = "returned"
    /\ parsing.lines = << <<"m1.A", ",", "1", "\n">>, CommentLine,
                          <<"m1.A", ",", "2", "\n">> >>
    /\ parsing.overrides[<<"m1.A">>] = 2

\* ------------------------------------------------ claims: shard completeness
\* The buckets of the bucket count
ShardRange == 0 .. (Val(shards.bucket_count) - 1)

\* Every bucket of the bucket count has been discovered for, with no method
\* overrides
AllShardsRun ==
    /\ shards.stage = "sharding"
    /\ shards.overrides = EmptyDict
    /\ ShardRange \subseteq DOMAIN shards.admitted

\* The buckets of the bucket count that admitted the class
ShardsOf(c) == {b \in ShardRange : c \in Range(shards.admitted[b])}

\* C25 as stated: every discovered class is admitted for exactly one bucket
\* of the bucket count.
C25_EveryClassInOneShard ==
    AllShardsRun =>
        \A c \in Range(Discovered(shards.path)) : Cardinality(ShardsOf(c)) = 1

\* The class has an override that is no bucket of the bucket count
OverriddenOutOfRange(c) ==
    /\ CmpStr(c) \in DOMAIN shards.bucket_overrides
    /\ shards.bucket_overrides[CmpStr(c)] \notin ShardRange

\* C25: every discovered class is admitted for exactly one bucket of the
\* bucket count, but for a class whose override is outside the bucket count's
\* range, which is admitted for none of them.
C25_EveryClassInOneShardOrOutOfRange ==
    AllShardsRun =>
        \A c \in Range(Discovered(shards.path)) :
            Cardinality(ShardsOf(c)) = IF OverriddenOutOfRange(c) THEN 0 ELSE 1

\* Both shards of a two-bucket split of a tree of three classes, with an
\* override in range and one out of range
C25_Witness ==
    /\ AllShardsRun
    /\ shards.path = "tests"
    /\ shards.bucket_count = Some(2)
    /\ DOMAIN shards.admitted = {0, 1}
    /\ OverriddenOutOfRange(ClassB1)
    /\ ShardsOf(ClassA1) = {1}
    /\ ShardsOf(ClassA2) = {1}

====
